---- MODULE Spec2Model ----
(***************************************************************************)
(* Model of the chat subsystem of study-backend: the REST chat routes      *)
(* (src/routes/chat.js), the Message schema with its TTL index             *)
(* (src/unnamed/part_002) and the Socket.IO presence / relay layer         *)
(* (src/server.js).                                                         *)
(*                                                                         *)
(* Time is in milliseconds, as Date.now() gives it.  A string is modelled  *)
(* by its shape: `lead` whitespace characters, then `body` characters that *)
(* start and end with a non-whitespace character (body = 0: there is no    *)
(* such character), then `trail` whitespace characters.                    *)
(*                                                                         *)
(* A route handler runs from one await to the next without interruption;   *)
(* a handler that reads a document and saves it later is modelled by two   *)
(* actions (the part up to the read, and the continuation up to the        *)
(* response), with the request kept in `pending` in between.               *)
(***************************************************************************)
EXTENDS Integers, Sequences, FiniteSets, Bags, TLC

VARIABLES
  now,          \* Date.now()
  ticks,        \* number of clock steps taken (bounds the run)
  store,        \* the messages collection, in insertion order
  nextId,       \* next _id the store hands out
  pending,      \* bag of requests suspended at an await
  resp,         \* the HTTP response produced by the last step (or NoResp)
  emits,        \* the Socket.IO events emitted by the last step
  sockets,      \* live authenticated connections: socket id -> user id
  nextSock,     \* next socket id
  onlineUsers,  \* server.js onlineUsers Map: user id -> entry
  handshake,    \* the handshake handled by the last step (or NoHandshake)
  incoming      \* the client event handled by the last step (or NoEvent)

vars == <<now, ticks, store, nextId, pending, resp, emits,
          sockets, nextSock, onlineUsers, handshake,
          incoming>>

(***************************************************************************)
(* Bounds of the model                                                     *)
(***************************************************************************)
MaxMsgs == 1
MaxTicks == 4
MaxInFlight == 1
MaxReactInFlight == 2
MaxVersion == 2
MaxSockets == 3
MaxListMsgs == 3
ExampleMsgs == 120

(***************************************************************************)
(* Program constants                                                       *)
(***************************************************************************)
MaxContentLen == 1000
DayMs == 86400000
ExpireAfterSeconds == 86400
EditWindowMs == 900000
DefaultPage == 1
DefaultLimit == 50

\* the k-th step of the clock: 14 min 59 s, then 1 s twice (to 15 min and to
\* 15 min 1 s), then 24 h, then 1 s steps
TickStep(k) ==
  CASE k = 0 -> EditWindowMs - 1000
    [] k = 3 -> DayMs
    [] OTHER -> 1000

(***************************************************************************)
(* Identities (req.user / socket.userId), with their name and role         *)
(***************************************************************************)
Users == {"u1", "u2", "adm"}

Role(u) == IF u = "adm" THEN "admin" ELSE "user"

Name(u) == IF u = "adm" THEN "Admin User" ELSE IF u = "u1" THEN "John Doe" ELSE "Jane Smith"

Emojis == {"+1", "heart"}

(***************************************************************************)
(* Strings                                                                 *)
(***************************************************************************)
Str(l, b, t) == [lead |-> l, body |-> b, trail |-> t]

\* String.prototype.length
StrLen(s) == s.lead + s.body + s.trail

\* a trim that removes nothing
Trim_Nothing(s) == s

\* String.prototype.trim
Trim(s) == Str(0, s.body, 0)

\* the content strings requests carry
Contents ==
  {Str(0, 0, 0), Str(1, 0, 1), Str(0, 1, 0), Str(0, MaxContentLen, 0),
   Str(1, MaxContentLen, 0), Str(0, MaxContentLen + 1, 0)}

NoStr == Str(0, 0, 0)

(***************************************************************************)
(* Messages (messageSchema) and the collection                             *)
(***************************************************************************)
\* editedAt of a message never edited; replyTo of a message that replies to none
NoDate == -1
NoId == 0

NoMsg ==
  [id |-> NoId, content |-> NoStr, user |-> "", userName |-> "", userRole |-> "",
   createdAt |-> NoDate, isEdited |-> FALSE, editedAt |-> NoDate,
   reactions |-> <<>>, replyTo |-> NoId, v |-> 0]

\* new Message(messageData): schema defaults, the trim setter on content,
\* timestamps: true sets createdAt when the document is first saved
NewMessage(id, content, u, replyTo, t) ==
  [id |-> id, content |-> Trim(content), user |-> u, userName |-> Name(u),
   userRole |-> Role(u), createdAt |-> t, isEdited |-> FALSE, editedAt |-> NoDate,
   reactions |-> <<>>, replyTo |-> replyTo, v |-> 0]

\* the schema validators of content: required, maxlength 1000 (after the trim setter)
SchemaAccepts(content) ==
  /\ StrLen(Trim(content)) > 0
  /\ StrLen(Trim(content)) <= MaxContentLen

Ids(s) == {s[i].id : i \in 1..Len(s)}

\* Message.findById: the document, or null (NoMsg)
findById(s, id) ==
  IF id \in Ids(s) THEN s[CHOOSE i \in 1..Len(s) : s[i].id = id] ELSE NoMsg

\* deleteOne({_id: id})
RemoveById(s, id) ==
  LET Keep(m) == m.id # id IN SelectSeq(s, Keep)

\* updateOne({_id: d.id}, ...) with the new field values of d
ReplaceDoc(s, d) == [i \in 1..Len(s) |-> IF s[i].id = d.id THEN d ELSE s[i]]

(***************************************************************************)
(* Requests suspended at an await, and responses                           *)
(***************************************************************************)
\* req.query of a listing request, with the time the request arrived
NoQuery == [page |-> <<>>, limit |-> <<>>, at |-> 0]

Req(op, u, id, content, emoji, doc) ==
  [op |-> op, user |-> u, id |-> id, content |-> content, emoji |-> emoji,
   doc |-> doc, replyTo |-> NoId, query |-> NoQuery, page |-> 0, limit |-> 0,
   cutoff |-> 0, messages |-> <<>>]

NoReq == Req("none", "", NoId, NoStr, "", NoMsg)

InFlight == BagCardinality(pending)

Suspend(r) == pending' = pending (+) SetToBag({r})

Resume(r) == pending' = pending (-) SetToBag({r})

NoResp == [op |-> "none", status |-> 0, req |-> NoReq, body |-> NoMsg]

\* res.status(status).json(body) answering request r
Resp(r, status, body) == [op |-> r.op, status |-> status, req |-> r, body |-> body]

\* no handshake was handled
NoHandshake == [cred |-> [kind |-> "none", user |-> ""], error |-> ""]

\* no client event was handled
NoEvent == [sid |-> 0, event |-> "none", data |-> <<>>]

\* no handshake and no client event in this step
NoSocketInput == handshake' = NoHandshake /\ incoming' = NoEvent

\* what a REST handler leaves alone: the realtime layer
RestFrame == UNCHANGED <<sockets, nextSock, onlineUsers>> /\ NoSocketInput

(***************************************************************************)
(* POST /messages  (src/routes/chat.js 47-89)                              *)
(***************************************************************************)
\* !content || content.trim().length === 0
ContentBlank(content) == StrLen(content) = 0 \/ StrLen(Trim(content)) = 0

\* content.length > 1000
ContentTooLong(content) == StrLen(content) > MaxContentLen

\* new Message(messageData); await message.save(); res.status(201).json(message)
SaveNewMessage(r) ==
  LET message == NewMessage(nextId, r.content, r.user, r.replyTo, now)
  IN IF SchemaAccepts(r.content)
     THEN /\ store' = Append(store, message)
          /\ nextId' = nextId + 1
          /\ resp' = Resp(r, 201, message)
     ELSE /\ UNCHANGED <<store, nextId>>
          /\ resp' = Resp(r, 500, NoMsg)

\* the handler up to its first await: validation, then either the save
\* (no replyTo) or the lookup of the parent message
SendMessage(u, content, replyTo) ==
  LET r == [Req("send", u, NoId, content, "", NoMsg) EXCEPT !.replyTo = replyTo]
  IN /\ emits' = <<>>
     /\ RestFrame
     /\ UNCHANGED <<now, ticks>>
     /\ IF ContentBlank(content) \/ ContentTooLong(content)
        THEN /\ resp' = Resp(r, 400, NoMsg)
             /\ UNCHANGED <<store, nextId, pending>>
        ELSE IF replyTo = NoId
        THEN /\ nextId <= MaxMsgs
             /\ SaveNewMessage(r)
             /\ UNCHANGED pending
        ELSE /\ nextId <= MaxMsgs
             /\ InFlight < MaxInFlight
             /\ Suspend([r EXCEPT !.doc = findById(store, replyTo)])
             /\ resp' = NoResp
             /\ UNCHANGED <<store, nextId>>

\* the continuation after await Message.findById(replyTo)
SendMessageReply(r) ==
  /\ r.op = "send"
  /\ Resume(r)
  /\ emits' = <<>>
  /\ RestFrame
  /\ UNCHANGED <<now, ticks>>
  /\ IF r.doc = NoMsg
     THEN /\ resp' = Resp(r, 400, NoMsg)
          /\ UNCHANGED <<store, nextId>>
     ELSE /\ nextId <= MaxMsgs
          /\ SaveNewMessage(r)

(***************************************************************************)
(* PUT /messages/:id  (src/routes/chat.js 92-136)                          *)
(***************************************************************************)
\* an ownership test without the admin exemption
NotAuthorized_AuthorOnly(message, u) == message.user # u

\* message.user.toString() !== req.user.id && req.user.role !== 'admin'
NotAuthorized(message, u) == message.user # u /\ Role(u) # "admin"

\* new Date(Date.now() - 15 * 60 * 1000)
fifteenMinutesAgo(t) == t - EditWindowMs

\* the window closed at 15 minutes sharp
EditWindowClosed_Inclusive(message, u, t) ==
  message.createdAt <= fifteenMinutesAgo(t) /\ Role(u) # "admin"

\* message.createdAt < fifteenMinutesAgo && req.user.role !== 'admin'
EditWindowClosed(message, u, t) ==
  message.createdAt < fifteenMinutesAgo(t) /\ Role(u) # "admin"

\* the handler up to await Message.findById(messageId)
EditMessage(u, id, content) ==
  LET r == Req("edit", u, id, content, "", findById(store, id))
  IN /\ emits' = <<>>
     /\ RestFrame
     /\ UNCHANGED <<now, ticks, store, nextId>>
     /\ IF ContentBlank(content) \/ ContentTooLong(content)
        THEN /\ resp' = Resp(r, 400, NoMsg)
             /\ UNCHANGED pending
        ELSE /\ InFlight < MaxInFlight
             /\ Suspend(r)
             /\ resp' = NoResp

\* the document edited in memory: content, isEdited, editedAt
EditedDoc(message, content, t) ==
  [message EXCEPT !.content = Trim(content), !.isEdited = TRUE, !.editedAt = t]

\* message.save() after a scalar change: $set of the modified paths on the
\* stored document with this _id
SaveEdit(s, message) ==
  ReplaceDoc(s, [findById(s, message.id) EXCEPT !.content = message.content,
                                                 !.isEdited = message.isEdited,
                                                 !.editedAt = message.editedAt])

\* the continuation: 404, 403, 403, save, 200
EditMessageSave(r) ==
  /\ r.op = "edit"
  /\ Resume(r)
  /\ emits' = <<>>
  /\ RestFrame
  /\ UNCHANGED <<now, ticks, nextId>>
  /\ IF r.doc = NoMsg
     THEN resp' = Resp(r, 404, NoMsg) /\ UNCHANGED store
     ELSE IF NotAuthorized(r.doc, r.user)
     THEN resp' = Resp(r, 403, NoMsg) /\ UNCHANGED store
     ELSE IF EditWindowClosed(r.doc, r.user, now)
     THEN resp' = Resp(r, 403, NoMsg) /\ UNCHANGED store
     ELSE LET message == EditedDoc(r.doc, r.content, now)
          IN IF r.id \in Ids(store) /\ SchemaAccepts(r.content)
             THEN /\ store' = SaveEdit(store, message)
                  /\ resp' = Resp(r, 200, message)
             ELSE /\ resp' = Resp(r, 500, NoMsg)
                  /\ UNCHANGED store

(***************************************************************************)
(* DELETE /messages/:id  (src/routes/chat.js 139-159)                      *)
(***************************************************************************)
DeleteMessage(u, id) ==
  /\ InFlight < MaxInFlight
  /\ Suspend(Req("delete", u, id, NoStr, "", findById(store, id)))
  /\ resp' = NoResp
  /\ emits' = <<>>
  /\ RestFrame
  /\ UNCHANGED <<now, ticks, store, nextId>>

\* the continuation: 404, 403, Message.findByIdAndDelete, 200
DeleteMessageRemove(r) ==
  /\ r.op = "delete"
  /\ Resume(r)
  /\ emits' = <<>>
  /\ RestFrame
  /\ UNCHANGED <<now, ticks, nextId>>
  /\ IF r.doc = NoMsg
     THEN resp' = Resp(r, 404, NoMsg) /\ UNCHANGED store
     ELSE IF NotAuthorized(r.doc, r.user)
     THEN resp' = Resp(r, 403, NoMsg) /\ UNCHANGED store
     ELSE /\ store' = RemoveById(store, r.id)
          /\ resp' = Resp(r, 200, NoMsg)

(***************************************************************************)
(* POST /messages/:id/reactions  (src/routes/chat.js 162-205)              *)
(***************************************************************************)
\* reaction.user.toString() === req.user.id && reaction.emoji === emoji
\* a test that looks at the user only
SameReaction_UserOnly(reaction, u, emoji) == reaction.user = u

SameReaction(reaction, u, emoji) == reaction.user = u /\ reaction.emoji = emoji

\* message.reactions.find(...)
existingReaction(message, u, emoji) ==
  \E i \in 1..Len(message.reactions) : SameReaction(message.reactions[i], u, emoji)

\* message.reactions.filter(reaction => !(...))
WithoutReaction(reactions, u, emoji) ==
  LET Keep(reaction) == ~SameReaction(reaction, u, emoji) IN SelectSeq(reactions, Keep)

\* the handler up to await Message.findById(messageId); "" is the missing emoji
ToggleReaction(u, id, emoji) ==
  LET r == Req("react", u, id, NoStr, emoji, findById(store, id))
  IN /\ emits' = <<>>
     /\ RestFrame
     /\ UNCHANGED <<now, ticks, store, nextId>>
     /\ IF emoji = ""
        THEN /\ resp' = Resp(r, 400, NoMsg)
             /\ UNCHANGED pending
        ELSE /\ InFlight < MaxReactInFlight
             /\ r.doc.v < MaxVersion
             /\ Suspend(r)
             /\ resp' = NoResp

\* a save that writes the whole document as it is in memory
SaveReactionsSet_WholeDoc(s, message) == ReplaceDoc(s, message)

\* message.save() after message.reactions = filtered: $set of the whole array,
\* applied only where the stored __v is the one that was read
SaveReactionsSet(s, message) ==
  ReplaceDoc(s, [findById(s, message.id) EXCEPT !.reactions = message.reactions,
                                                 !.v = @ + 1])

\* message.save() after message.reactions.push(x): $push of x onto the stored array
SaveReactionsPush(s, id, reaction) ==
  ReplaceDoc(s, [findById(s, id) EXCEPT !.reactions = Append(@, reaction),
                                         !.v = @ + 1])

\* a save that writes the array as toggled in memory over the stored one
ToggledStore_LastWriteWins(s, r) ==
  ReplaceDoc(s, [findById(s, r.id) EXCEPT
                   !.reactions = IF existingReaction(r.doc, r.user, r.emoji)
                                 THEN WithoutReaction(r.doc.reactions, r.user, r.emoji)
                                 ELSE Append(r.doc.reactions,
                                             [user |-> r.user, emoji |-> r.emoji]),
                   !.v = @ + 1])

\* the collection after the toggle of request r on the document it read, saved
\* into collection s
ToggledStore(s, r) ==
  IF existingReaction(r.doc, r.user, r.emoji)
  THEN SaveReactionsSet(s, [r.doc EXCEPT !.reactions = WithoutReaction(@, r.user, r.emoji),
                                         !.v = @ + 1])
  ELSE SaveReactionsPush(s, r.id, [user |-> r.user, emoji |-> r.emoji])

\* the continuation: 404, toggle in memory, save, 200
ToggleReactionSave(r) ==
  /\ r.op = "react"
  /\ Resume(r)
  /\ emits' = <<>>
  /\ RestFrame
  /\ UNCHANGED <<now, ticks, nextId>>
  /\ IF r.doc = NoMsg
     THEN resp' = Resp(r, 404, NoMsg) /\ UNCHANGED store
     ELSE IF r.id \notin Ids(store)
     THEN resp' = Resp(r, 500, NoMsg) /\ UNCHANGED store
     ELSE IF existingReaction(r.doc, r.user, r.emoji)
     THEN LET message == [r.doc EXCEPT !.reactions = WithoutReaction(@, r.user, r.emoji),
                                       !.v = @ + 1]
          IN IF findById(store, r.id).v = r.doc.v
             THEN /\ store' = ToggledStore(store, r)
                  /\ resp' = Resp(r, 200, message)
             ELSE /\ resp' = Resp(r, 500, NoMsg)
                  /\ UNCHANGED store
     ELSE LET reaction == [user |-> r.user, emoji |-> r.emoji]
              message == [r.doc EXCEPT !.reactions = Append(@, reaction), !.v = @ + 1]
          IN /\ store' = ToggledStore(store, r)
             /\ resp' = Resp(r, 200, message)

(***************************************************************************)
(* GET /messages?page&limit  (src/routes/chat.js 7-44)                     *)
(***************************************************************************)
\* a query-string value is a sequence of characters; a parameter that is
\* absent is undefined, which parseInt reads as the string "undefined"
Absent == <<"u", "n", "d", "e", "f", "i", "n", "e", "d">>

Digits == {"0", "1", "2", "3", "4", "5", "6", "7", "8", "9"}

DigitVal(c) ==
  CASE c = "0" -> 0 [] c = "1" -> 1 [] c = "2" -> 2 [] c = "3" -> 3 [] c = "4" -> 4
    [] c = "5" -> 5 [] c = "6" -> 6 [] c = "7" -> 7 [] c = "8" -> 8 [] c = "9" -> 9

RECURSIVE SkipSpaces(_)
SkipSpaces(s) == IF s # <<>> /\ Head(s) = " " THEN SkipSpaces(Tail(s)) ELSE s

RECURSIVE DigitPrefix(_)
\* the longest prefix of s made of decimal digits
DigitPrefix(s) ==
  IF s # <<>> /\ Head(s) \in Digits THEN <<Head(s)>> \o DigitPrefix(Tail(s)) ELSE <<>>

RECURSIVE DecimalValue(_)
DecimalValue(ds) ==
  IF ds = <<>> THEN 0
  ELSE 10 * DecimalValue(SubSeq(ds, 1, Len(ds) - 1)) + DigitVal(ds[Len(ds)])

\* parseInt(s): leading whitespace, an optional sign, then decimal digits up
\* to the first other character; NaN when there is no digit
parseInt(s) ==
  LET t == SkipSpaces(s)
      neg == t # <<>> /\ Head(t) = "-"
      u == IF t # <<>> /\ Head(t) \in {"-", "+"} THEN Tail(t) ELSE t
      ds == DigitPrefix(u)
  IN IF ds = <<>> THEN [nan |-> TRUE, val |-> 0]
     ELSE [nan |-> FALSE, val |-> IF neg THEN 0 - DecimalValue(ds) ELSE DecimalValue(ds)]

\* parseInt(q) || d : NaN and 0 are falsy
OrDefault(n, d) == IF n.nan \/ n.val = 0 THEN d ELSE n.val

\* const page = parseInt(req.query.page) || 1
PageOf(q) == OrDefault(parseInt(q), DefaultPage)

\* const limit = parseInt(req.query.limit) || 50
LimitOf(q) == OrDefault(parseInt(q), DefaultLimit)

\* the skip of a page numbered from 0
SkipOf_FromZero(page, limit) == page * limit

\* const skip = (page - 1) * limit
SkipOf(page, limit) == (page - 1) * limit

\* new Date(Date.now() - 24 * 60 * 60 * 1000)
twentyFourHoursAgo(t) == t - DayMs

\* the filter left out
InWindow_Unfiltered(m, cutoff) == TRUE

\* { createdAt: { $gte: twentyFourHoursAgo } }
InWindow(m, cutoff) == m.createdAt >= cutoff

\* .sort({ createdAt: -1 }): newest first; documents created in the same
\* millisecond keep the order of the collection
SortDesc(s) ==
  LET Before(j, i) == \/ s[j].createdAt > s[i].createdAt
                      \/ s[j].createdAt = s[i].createdAt /\ j < i
      rank == [i \in 1..Len(s) |-> 1 + Cardinality({j \in 1..Len(s) : Before(j, i)})] \o <<>>
  IN [k \in 1..Len(s) |-> s[CHOOSE i \in 1..Len(s) : rank[i] = k]]

\* .skip(n)
Skipped(s, n) == SubSeq(s, n + 1, Len(s))

\* .limit(n); a negative limit asks for a single batch of -n documents
Limited(s, n) ==
  LET k == IF n < 0 THEN 0 - n ELSE n IN SubSeq(s, 1, IF k < Len(s) THEN k ELSE Len(s))

\* Message.find({createdAt: {$gte: cutoff}}).sort(...).skip(skip).limit(limit)
FindPage(s, cutoff, skip, limit) ==
  LET Keep(m) == InWindow(m, cutoff)
  IN Limited(Skipped(SortDesc(SelectSeq(s, Keep)), skip), limit)

\* Message.countDocuments({createdAt: {$gte: cutoff}})
CountInWindow(s, cutoff) ==
  Cardinality({i \in 1..Len(s) : InWindow(s[i], cutoff)})

\* Math.ceil(total / limit), total >= 0, limit # 0
totalPagesOf(total, limit) ==
  IF limit > 0 THEN (total + limit - 1) \div limit
  ELSE 0 - (total \div (0 - limit))

\* Array.prototype.reverse
Reverse(s) == [i \in 1..Len(s) |-> s[Len(s) + 1 - i]]

\* the handler up to the answer of Message.find; the store rejects a
\* negative skip, which the handler reports as 500
ListMessages(pageQ, limitQ) ==
  LET page == PageOf(pageQ)
      limit == LimitOf(limitQ)
      skip == SkipOf(page, limit)
      cutoff == twentyFourHoursAgo(now)
      r == [Req("list", "", NoId, NoStr, "", NoMsg)
              EXCEPT !.query = [page |-> pageQ, limit |-> limitQ, at |-> now],
                     !.page = page, !.limit = limit, !.cutoff = cutoff]
  IN /\ emits' = <<>>
     /\ RestFrame
     /\ UNCHANGED <<now, ticks, store, nextId>>
     /\ IF skip < 0
        THEN /\ resp' = Resp(r, 500, NoMsg)
             /\ UNCHANGED pending
        ELSE /\ InFlight < MaxInFlight
             /\ Suspend([r EXCEPT !.messages = FindPage(store, cutoff, skip, limit)])
             /\ resp' = NoResp

\* the pagination block of the response
Pagination(page, limit, totalMessages) ==
  LET totalPages == totalPagesOf(totalMessages, limit)
  IN [currentPage |-> page, totalPages |-> totalPages, totalMessages |-> totalMessages,
      hasNext |-> page < totalPages, hasPrev |-> page > 1]

\* the continuation: countDocuments, then the response
ListMessagesCount(r) ==
  /\ r.op = "list"
  /\ Resume(r)
  /\ resp' = Resp(r, 200, [messages |-> Reverse(r.messages),
                           pagination |-> Pagination(r.page, r.limit,
                                                     CountInWindow(store, r.cutoff))])
  /\ emits' = <<>>
  /\ RestFrame
  /\ UNCHANGED <<now, ticks, store, nextId>>

(***************************************************************************)
(* GET /online-users  (src/routes/chat.js 207-216)                         *)
(***************************************************************************)
\* res.json({ count: 0, users: [] })
GetOnlineUsers(u) ==
  /\ resp' = Resp(Req("onlineUsers", u, NoId, NoStr, "", NoMsg), 200,
                  [count |-> 0, users |-> {}])
  /\ emits' = <<>>
  /\ RestFrame
  /\ UNCHANGED <<now, ticks, store, nextId, pending>>

(***************************************************************************)
(* The clock, and the TTL index of the collection (part_002 49-50)         *)
(***************************************************************************)
Tick ==
  /\ ticks < MaxTicks
  /\ now' = now + TickStep(ticks)
  /\ ticks' = ticks + 1
  /\ resp' = NoResp
  /\ emits' = <<>>
  /\ NoSocketInput
  /\ UNCHANGED <<store, nextId, pending, sockets, nextSock, onlineUsers>>

\* expireAfterSeconds: 86400 on createdAt
Expired(m, t) == m.createdAt + ExpireAfterSeconds * 1000 <= t

\* the store's background task deletes the expired documents
TTLExpire ==
  /\ \E i \in 1..Len(store) : Expired(store[i], now)
  /\ store' = LET Keep(m) == ~Expired(m, now) IN SelectSeq(store, Keep)
  /\ resp' = NoResp
  /\ emits' = <<>>
  /\ NoSocketInput
  /\ UNCHANGED <<now, ticks, nextId, pending, sockets, nextSock, onlineUsers>>

(***************************************************************************)
(* The realtime layer  (src/server.js 44-137)                              *)
(***************************************************************************)
\* the credential of a handshake: no token, a token jwt.verify rejects, a
\* valid token of a user that no longer exists, a valid token of user u
Credentials ==
  {[kind |-> k, user |-> ""] : k \in {"missing", "malformed", "unknownUser"}}
    \cup {[kind |-> "valid", user |-> u] : u \in Users}

\* io.use(...): the error handed to next(), "" for next() without an error
HandshakeError(cred) ==
  CASE cred.kind = "missing" -> "Authentication error"
    [] cred.kind = "malformed" -> "Authentication error"
    [] cred.kind = "unknownUser" -> "User not found"
    [] OTHER -> ""

\* the middleware without its test of the user the token names
Authenticated_NoUserCheck(cred) == cred.kind \in {"valid", "unknownUser"}

\* io.use(...): next() without an error
Authenticated(cred) == HandshakeError(cred) = ""

LiveSockets == DOMAIN sockets

\* Array.from(onlineUsers.values()).map(user => ({id, name, role}))
PresenceSnapshot(m) ==
  [count |-> Cardinality(DOMAIN m),
   users |-> {[id |-> m[u].id, name |-> m[u].name, role |-> m[u].role] : u \in DOMAIN m}]

\* io.emit(event, payload): to every connected socket
IoEmit(event, payload, live) == <<[event |-> event, payload |-> payload, to |-> live]>>

\* an emit that also reaches the socket it is made on
BroadcastEmit_ToAll(event, payload, live, sid) ==
  <<[event |-> event, payload |-> payload, to |-> live]>>

\* socket.broadcast.emit(event, payload): to every connected socket but this one
BroadcastEmit(event, payload, live, sid) ==
  <<[event |-> event, payload |-> payload, to |-> live \ {sid}]>>

\* a registry that keeps the entry an identity already has
SetOnline_KeepFirst(m, u, sid) ==
  [x \in DOMAIN m \cup {u} |->
     IF x = u /\ u \notin DOMAIN m
     THEN [id |-> u, name |-> Name(u), role |-> Role(u), socketId |-> sid]
     ELSE m[x]]

\* onlineUsers.set(socket.userId, {...})
SetOnline(m, u, sid) ==
  [x \in DOMAIN m \cup {u} |->
     IF x = u THEN [id |-> u, name |-> Name(u), role |-> Role(u), socketId |-> sid]
     ELSE m[x]]

\* onlineUsers.delete(socket.userId)
DeleteOnline(m, u) == [x \in DOMAIN m \ {u} |-> m[x]]

RtFrame == UNCHANGED <<now, ticks, store, nextId, pending>> /\ resp' = NoResp

\* a handshake: the middleware, then on success the connection handler
Connect(cred) ==
  /\ RtFrame
  /\ handshake' = [cred |-> cred, error |-> HandshakeError(cred)]
  /\ incoming' = NoEvent
  /\ IF Authenticated(cred)
     THEN /\ nextSock <= MaxSockets
          /\ sockets' = [s \in LiveSockets \cup {nextSock} |->
                           IF s = nextSock THEN cred.user ELSE sockets[s]]
          /\ nextSock' = nextSock + 1
          /\ onlineUsers' = SetOnline(onlineUsers, cred.user, nextSock)
          /\ emits' = IoEmit("onlineUsersUpdate", PresenceSnapshot(onlineUsers'),
                             LiveSockets \cup {nextSock})
     ELSE /\ emits' = <<>>
          /\ UNCHANGED <<sockets, nextSock, onlineUsers>>

\* socket.on('disconnect')
Disconnect(sid) ==
  /\ sid \in LiveSockets
  /\ RtFrame
  /\ sockets' = [s \in LiveSockets \ {sid} |-> sockets[s]]
  /\ onlineUsers' = DeleteOnline(onlineUsers, sockets[sid])
  /\ emits' = IoEmit("onlineUsersUpdate", PresenceSnapshot(onlineUsers'),
                     LiveSockets \ {sid})
  /\ NoSocketInput
  /\ UNCHANGED nextSock

\* the payloads clients send over the socket
Payloads == {[id |-> i, content |-> c] : i \in 1..MaxMsgs, c \in {Str(0, 1, 0), Str(0, MaxContentLen + 1, 0)}}

\* socket.on('sendMessage')
SocketSendMessage(sid, messageData) ==
  /\ sid \in LiveSockets
  /\ emits' = BroadcastEmit("newMessage", messageData, LiveSockets, sid)
  /\ RtFrame
  /\ handshake' = NoHandshake
  /\ incoming' = [sid |-> sid, event |-> "sendMessage", data |-> messageData]
  /\ UNCHANGED <<sockets, nextSock, onlineUsers>>

\* socket.on('editMessage'), socket.on('deleteMessage'), socket.on('addReaction')
RelayedEvent(event) ==
  CASE event = "editMessage" -> "messageEdited"
    [] event = "deleteMessage" -> "messageDeleted"
    [] event = "addReaction" -> "reactionAdded"

SocketRelay(sid, event, data) ==
  /\ sid \in LiveSockets
  /\ emits' = IoEmit(RelayedEvent(event), data, LiveSockets)
  /\ RtFrame
  /\ handshake' = NoHandshake
  /\ incoming' = [sid |-> sid, event |-> event, data |-> data]
  /\ UNCHANGED <<sockets, nextSock, onlineUsers>>

\* socket.on('typing')
SocketTyping(sid, isTyping) ==
  /\ sid \in LiveSockets
  /\ emits' = BroadcastEmit("userTyping",
                            [userId |-> sockets[sid], userName |-> Name(sockets[sid]),
                             isTyping |-> isTyping], LiveSockets, sid)
  /\ RtFrame
  /\ handshake' = NoHandshake
  /\ incoming' = [sid |-> sid, event |-> "typing", data |-> [isTyping |-> isTyping]]
  /\ UNCHANGED <<sockets, nextSock, onlineUsers>>

(***************************************************************************)
(* Specifications                                                          *)
(***************************************************************************)
\* query-string values of the requests
QueryValues ==
  {Absent, <<"a">>, <<"0">>, <<"1">>, <<"2">>, <<"3">>, <<"5", "0">>, <<"-", "1">>,
   <<" ", "2", "a">>}

\* the query-string values used while the collection changes
ListQueries == {Absent, <<"1">>, <<"2">>, <<"-", "1">>}

MsgIds == 1..MaxMsgs

Init ==
  /\ now = DayMs
  /\ ticks = 0
  /\ store = <<>>
  /\ nextId = 1
  /\ pending = EmptyBag
  /\ resp = NoResp
  /\ emits = <<>>
  /\ sockets = <<>>
  /\ nextSock = 1
  /\ onlineUsers = <<>>
  /\ handshake = NoHandshake
  /\ incoming = NoEvent

\* the message routes under the clock and the TTL index
Next ==
  \/ \E u \in Users, c \in Contents, p \in {NoId} \cup MsgIds : SendMessage(u, c, p)
  \/ \E r \in BagToSet(pending) : SendMessageReply(r)
  \/ \E u \in Users, id \in MsgIds, c \in Contents : EditMessage(u, id, c)
  \/ \E r \in BagToSet(pending) : EditMessageSave(r)
  \/ \E u \in Users, id \in MsgIds : DeleteMessage(u, id)
  \/ \E r \in BagToSet(pending) : DeleteMessageRemove(r)
  \/ Tick
  \/ TTLExpire

Spec == Init /\ [][Next]_vars

\* the reaction route on one message, with requests that overlap
InitReact ==
  /\ Init!1 /\ Init!2 /\ Init!5 /\ Init!6 /\ Init!7 /\ Init!8 /\ Init!9 /\ Init!10 /\ Init!11 /\ Init!12
  /\ store = <<NewMessage(1, Str(0, 1, 0), "u1", NoId, now)>>
  /\ nextId = 2

NextReact ==
  \/ \E u \in Users, id \in {1, 2}, e \in Emojis \cup {""} : ToggleReaction(u, id, e)
  \/ \E r \in BagToSet(pending) : ToggleReactionSave(r)
  \/ DeleteMessage("u1", 1)
  \/ \E r \in BagToSet(pending) : DeleteMessageRemove(r)

SpecReact == InitReact /\ [][NextReact]_vars

\* a collection of n messages sent gap milliseconds apart, the last one at time t
StoreOfSize(n, t, gap) ==
  [i \in 1..n |-> NewMessage(i, Str(0, 1, 0), "u1", NoId, t - (n - i) * gap)]

ListSizes == 0..MaxListMsgs \cup {ExampleMsgs}

\* the listing route over a collection that does not change, one request at a
\* time: listings write nothing, so overlapping ones do not affect each other
InitPage ==
  /\ Init!2 /\ Init!5 /\ Init!6 /\ Init!7 /\ Init!8 /\ Init!9 /\ Init!10 /\ Init!11 /\ Init!12
  /\ \E n \in ListSizes, late \in {0, DayMs - 1000} :
        /\ store = StoreOfSize(n, DayMs, 1000)
        /\ nextId = n + 1
        /\ now = DayMs + late

NextPage ==
  \/ \E p \in QueryValues, l \in QueryValues :
        pending = EmptyBag /\ ListMessages(p, l)
  \/ \E r \in BagToSet(pending) : ListMessagesCount(r)

SpecPage == InitPage /\ [][NextPage]_vars

\* the listing route while messages age and expire: the collection starts with
\* messages sent 12 hours apart, the oldest ones due for removal
InitList ==
  /\ Init!2 /\ Init!5 /\ Init!6 /\ Init!7 /\ Init!8 /\ Init!9 /\ Init!10 /\ Init!11 /\ Init!12
  /\ now = 3 * DayMs
  /\ \E n \in 0..MaxListMsgs :
        /\ store = StoreOfSize(n, now, DayMs \div 2)
        /\ nextId = n + 1

NextList ==
  \/ \E p \in ListQueries, l \in ListQueries : ListMessages(p, l)
  \/ \E r \in BagToSet(pending) : ListMessagesCount(r)
  \/ Tick
  \/ TTLExpire

SpecList == InitList /\ [][NextList]_vars

\* the edit route on one message of a non-admin author, under the clock and the
\* TTL index; id nextId is the id of no message
EditContents ==
  {Str(0, 1, 0), Str(1, 0, 1), Str(0, MaxContentLen, 0), Str(0, MaxContentLen + 1, 0)}

InitEdit ==
  /\ Init!1 /\ Init!2 /\ Init!5 /\ Init!6 /\ Init!7 /\ Init!8 /\ Init!9 /\ Init!10 /\ Init!11 /\ Init!12
  /\ store = <<NewMessage(1, Str(0, 1, 0), "u1", NoId, now)>>
  /\ nextId = 2

NextEdit ==
  \/ \E u \in Users, id \in 1..nextId, c \in EditContents : EditMessage(u, id, c)
  \/ \E r \in BagToSet(pending) : EditMessageSave(r)
  \/ Tick
  \/ TTLExpire

SpecEdit == InitEdit /\ [][NextEdit]_vars

\* the reaction route alone on one message: toggles of two users that overlap
NextToggle ==
  \/ \E u \in {"u1", "u2"}, e \in Emojis : ToggleReaction(u, 1, e)
  \/ \E r \in BagToSet(pending) : ToggleReactionSave(r)

SpecToggle == InitReact /\ [][NextToggle]_vars

\* the delete route on two messages of different non-admin authors, under the
\* clock and the TTL index; id nextId is the id of no message
InitDelete ==
  /\ Init!1 /\ Init!2 /\ Init!5 /\ Init!6 /\ Init!7 /\ Init!8 /\ Init!9 /\ Init!10 /\ Init!11 /\ Init!12
  /\ store = <<NewMessage(1, Str(0, 1, 0), "u1", NoId, now),
               NewMessage(2, Str(0, 1, 0), "u2", NoId, now)>>
  /\ nextId = 3

NextDelete ==
  \/ \E u \in Users, id \in 1..nextId : DeleteMessage(u, id)
  \/ \E r \in BagToSet(pending) : DeleteMessageRemove(r)
  \/ Tick
  \/ TTLExpire

SpecDelete == InitDelete /\ [][NextDelete]_vars

\* the send and edit routes alone for one user, with contents that carry surrounding
\* whitespace: blank, padded, of 1000 characters with the padding, and over
\* 1000 characters with and without it; a reply is to the first message
PaddedContents ==
  {Str(1, 0, 1), Str(1, 1, 1), Str(1, MaxContentLen - 1, 0), Str(1, MaxContentLen, 0),
   Str(0, MaxContentLen + 1, 0)}

NextContent ==
  \/ \E c \in PaddedContents, p \in {NoId, 1} : SendMessage("u1", c, p)
  \/ \E r \in BagToSet(pending) : SendMessageReply(r)
  \/ \E id \in 1..nextId, c \in PaddedContents : EditMessage("u1", id, c)
  \/ \E r \in BagToSet(pending) : EditMessageSave(r)

SpecContent == Init /\ [][NextContent]_vars

\* sends by a user, edits of the first message by an admin and reactions to it
\* by another user, overlapping
NextFrame ==
  \/ SendMessage("u1", Str(0, 1, 0), NoId)
  \/ EditMessage("adm", 1, Str(0, MaxContentLen, 0))
  \/ \E r \in BagToSet(pending) : EditMessageSave(r)
  \/ \E e \in Emojis : ToggleReaction("u2", 1, e)
  \/ \E r \in BagToSet(pending) : ToggleReactionSave(r)

SpecFrame == Init /\ [][NextFrame]_vars

\* the realtime layer
NextRT ==
  \/ \E cred \in Credentials : Connect(cred)
  \/ \E sid \in LiveSockets : Disconnect(sid)
  \/ \E sid \in LiveSockets, d \in Payloads : SocketSendMessage(sid, d)
  \/ \E sid \in LiveSockets, d \in Payloads,
        e \in {"editMessage", "deleteMessage", "addReaction"} : SocketRelay(sid, e, d)
  \/ \E sid \in LiveSockets, t \in BOOLEAN : SocketTyping(sid, t)
  \/ \E u \in Users : GetOnlineUsers(u)

SpecRT == Init /\ [][NextRT]_vars

(***************************************************************************)
(* Properties                                                              *)
(***************************************************************************)
\* a successful answer of a route that changes the collection
Succeeded(r, op) == r.op = op /\ r.status \in {200, 201}

\* C1: a send without replyTo succeeds (the message is persisted and returned)
\* if and only if the trimmed length of the content is between 1 and 1000
C1_SendSucceedsIffTrimmedLengthInRange ==
  [][(resp'.op = "send" /\ resp'.req.replyTo = NoId) =>
       ((/\ Succeeded(resp', "send")
         /\ store' = Append(store, resp'.body)
         /\ resp'.body.content = Trim(resp'.req.content))
        <=> (/\ StrLen(Trim(resp'.req.content)) >= 1
             /\ StrLen(Trim(resp'.req.content)) <= 1000))]_vars

\* the event the peers are to receive for a successful operation
BroadcastOf(op) ==
  CASE op = "send" -> "newMessage"
    [] op = "edit" -> "messageEdited"
    [] op = "delete" -> "messageDeleted"
    [] op = "react" -> "reactionAdded"

\* C2: every successful send, edit, delete and reaction toggle through the
\* REST routes emits exactly one broadcast event, of the corresponding kind
C2_SuccessfulMutationEmitsOneBroadcast ==
  \A op \in {"send", "edit", "delete", "react"} :
    Succeeded(resp, op) => Len(emits) = 1 /\ emits[1].event = BroadcastOf(op)

\* the identities that hold at least one live authenticated connection
ConnectedIdentities == {sockets[s] : s \in LiveSockets}

\* C3: the presence registry, and the snapshot last broadcast, hold exactly the
\* identities that have a live connection
C3_PresenceIsTheConnectedIdentities ==
  /\ DOMAIN onlineUsers = ConnectedIdentities
  /\ \A i \in 1..Len(emits) :
       emits[i].event = "onlineUsersUpdate" =>
         {x.id : x \in emits[i].payload.users} = ConnectedIdentities

\* C4: a message created more than 24 hours ago is neither listed nor edited,
\* whether or not the store has removed it yet
C4_ExpiredMessageNeitherListedNorEdited ==
  /\ Succeeded(resp, "edit") => now - resp.body.createdAt <= 24 * 60 * 60 * 1000
  /\ Succeeded(resp, "list") =>
       \A i \in 1..Len(resp.body.messages) :
         resp.req.query.at - resp.body.messages[i].createdAt <= 24 * 60 * 60 * 1000

\* C5: every stored message holds at most one reaction per (user, emoji) pair
C5_OneReactionPerUserAndEmoji ==
  \A k \in 1..Len(store) :
    \A i, j \in 1..Len(store[k].reactions) :
      i # j => store[k].reactions[i] # store[k].reactions[j]

\* C6: an edit of an existing message by a requester who is neither its author
\* nor an admin is answered 403 whatever the content, and changes nothing
C6_EditByStrangerIsForbidden ==
  [][(/\ resp'.op = "edit"
      /\ resp'.req.id \in Ids(store)
      /\ findById(store, resp'.req.id).user # resp'.req.user
      /\ Role(resp'.req.user) # "admin")
     => (resp'.status = 403 /\ store' = store)]_vars

\* query values that are absent, non-numeric, zero or negative
InvalidQuery(q) == q \in {Absent, <<"a">>, <<"0">>, <<"-", "1">>}

\* the listing requests seen in a state: suspended, or just answered
ListRequests ==
  {r \in BagToSet(pending) : r.op = "list"}
    \cup (IF resp.op = "list" THEN {resp.req} ELSE {})

\* C7: an absent or invalid page or limit falls back to 1 and 50, so the page
\* and the page size in effect are at least 1 and the skip is never negative
C7_InvalidPagingFallsBackToDefaults ==
  \A r \in ListRequests :
    /\ InvalidQuery(r.query.page) => r.page = 1
    /\ InvalidQuery(r.query.limit) => r.limit = 50
    /\ r.page >= 1
    /\ r.limit >= 1
    /\ (r.page - 1) * r.limit >= 0

\* the stored messages not older than 24 hours at time t
LiveAt(t) == {i \in 1..Len(store) : t - store[i].createdAt <= 24 * 60 * 60 * 1000}

NumeralOf(q) ==
  CASE q = <<"1">> -> 1 [] q = <<"2">> -> 2 [] q = <<"3">> -> 3 [] q = <<"5", "0">> -> 50
    [] OTHER -> 0

\* newest-first rank of message m among the messages live at time t
RankAt(m, t) ==
  1 + Cardinality({i \in LiveAt(t) : store[i].createdAt > m.createdAt})

Min(a, b) == IF a < b THEN a ELSE b

\* the least k with k * s >= n
CeilingOf(n, s) == CHOOSE k \in 0..n : k * s >= n /\ (k = 0 \/ (k - 1) * s < n)

\* C9: with N live messages, page p >= 1 and page size s >= 1, a listing returns
\* the messages of newest-first ranks (p-1)*s+1 .. min(p*s, N), oldest first,
\* with totalMessages = N, totalPages = ceil(N/s), hasNext = (p < totalPages)
\* and hasPrev = (p > 1)
C9_PageIsTheRankSliceOldestFirst ==
  (/\ resp.op = "list"
   /\ NumeralOf(resp.req.query.page) >= 1
   /\ NumeralOf(resp.req.query.limit) >= 1)
  => LET p == NumeralOf(resp.req.query.page)
         s == NumeralOf(resp.req.query.limit)
         t == resp.req.query.at
         N == Cardinality(LiveAt(t))
         out == resp.body.messages
         last == Min(p * s, N)
         size == IF last > (p - 1) * s THEN last - (p - 1) * s ELSE 0
         info == resp.body.pagination
     IN /\ resp.status = 200
        /\ Len(out) = size
        /\ \A i \in 1..Len(out) :
             /\ \E k \in LiveAt(t) : store[k] = out[i]
             /\ RankAt(out[i], t) = (p - 1) * s + size + 1 - i
        /\ info.currentPage = p
        /\ info.totalMessages = N
        /\ info.totalPages = CeilingOf(N, s)
        /\ info.hasNext = (p < CeilingOf(N, s))
        /\ info.hasPrev = (p > 1)

\* page 3 of 120 live messages at 50 a page: the 20 oldest, no next page
C9_Witness ==
  /\ Succeeded(resp, "list")
  /\ resp.req.query.page = <<"3">>
  /\ resp.req.query.limit = <<"5", "0">>
  /\ Cardinality(LiveAt(resp.req.query.at)) = 120
  /\ Len(resp.body.messages) = 20
  /\ ~resp.body.pagination.hasNext
  /\ resp.body.pagination.hasPrev

\* content the edit route's validation accepts: not blank, at most 1000 characters
AcceptedContent(c) == StrLen(Trim(c)) >= 1 /\ StrLen(c) <= 1000

C11_RejectedHandshakeChangesNothing ==
  [][(handshake' # NoHandshake /\ handshake'.cred.kind # "valid")
       => /\ handshake'.error # ""
          /\ sockets' = sockets
          /\ onlineUsers' = onlineUsers
          /\ emits' = <<>>]_vars

\* a token of an unknown user is refused while others are connected
C11_Witness ==
  /\ handshake.cred.kind = "unknownUser"
  /\ handshake.error = "User not found"
  /\ Cardinality(DOMAIN onlineUsers) = 2
  /\ emits = <<>>

\* the events of a kind, with their payloads, that the last step delivered to
\* connection s
Received(s, event) ==
  {i \in 1..Len(emits) : emits[i].event = event /\ s \in emits[i].to}

\* C12: when connection A emits sendMessage, every other live connection is
\* delivered exactly one newMessage with the payload A sent, and A none
C12_NewMessageReachesAllButSender ==
  incoming.event = "sendMessage" =>
    \A s \in LiveSockets :
      IF s = incoming.sid
      THEN Received(s, "newMessage") = {}
      ELSE /\ Cardinality(Received(s, "newMessage")) = 1
           /\ \A i \in Received(s, "newMessage") : emits[i].payload = incoming.data

\* A sends while two other connections are live
C12_Witness ==
  /\ incoming.event = "sendMessage"
  /\ Cardinality(LiveSockets) = 3
  /\ \A s \in LiveSockets \ {incoming.sid} : Received(s, "newMessage") # {}

\* the (user, emoji) pairs of a message's reactions
ReactionSet(m) == {m.reactions[i] : i \in 1..Len(m.reactions)}

\* a toggle that runs from its read to its save with nothing in between
ToggleAlone(s, u, id, emoji) ==
  ToggledStore(s, Req("react", u, id, NoStr, emoji, findById(s, id)))

\* C13: on every reachable message, two toggles of the same (user, emoji) in
\* succession, with nothing else in between, give back the set of reactions
\* the message had, whether the pair was present or not
C13_ToggleTwiceRestoresReactionSet ==
  \A id \in Ids(store), u \in Users, e \in Emojis :
    LET once == ToggleAlone(store, u, id, e)
        twice == ToggleAlone(once, u, id, e)
    IN /\ ([user |-> u, emoji |-> e] \in ReactionSet(findById(once, id)))
            <=> ([user |-> u, emoji |-> e] \notin ReactionSet(findById(store, id)))
       /\ ReactionSet(findById(twice, id)) = ReactionSet(findById(store, id))

\* a second toggle in succession has been answered: the message is back to no
\* reaction after having one
C13_Witness ==
  /\ resp.op = "react" /\ resp.status = 200
  /\ resp.req.doc.v = 1
  /\ ReactionSet(resp.req.doc) = {[user |-> resp.req.user, emoji |-> resp.req.emoji]}
  /\ resp.req.id \in Ids(store)
  /\ findById(store, resp.req.id).v = 2
  /\ findById(store, resp.req.id).reactions = <<>>

\* the live connections of identity u
ConnectionsOf(u) == {sid \in LiveSockets : sockets[sid] = u}

\* a handshake was accepted in the last step
Accepted == handshake # NoHandshake /\ handshake.error = ""

\* C14: the registry has at most one entry per identity id, an entry carries
\* the handle of the identity's most recent live connection, and when an
\* identity connects again its entry carries the new connection's handle
C14_OneEntryPerIdentityLastConnectionWins ==
  /\ \A u \in DOMAIN onlineUsers, v \in DOMAIN onlineUsers :
        onlineUsers[u].id = onlineUsers[v].id => u = v
  /\ \A u \in DOMAIN onlineUsers :
        /\ onlineUsers[u].id = u
        /\ onlineUsers[u].socketId \in ConnectionsOf(u)
        /\ \A sid \in ConnectionsOf(u) : sid <= onlineUsers[u].socketId
  /\ Accepted =>
        /\ handshake.cred.user \in DOMAIN onlineUsers
        /\ onlineUsers[handshake.cred.user].socketId = nextSock - 1
        /\ nextSock - 1 \in ConnectionsOf(handshake.cred.user)

\* an identity has just connected a second time, its first connection live
C14_Witness ==
  /\ Accepted
  /\ Cardinality(ConnectionsOf(handshake.cred.user)) = 2
  /\ onlineUsers[handshake.cred.user].socketId = nextSock - 1
  /\ Cardinality(DOMAIN onlineUsers) = 1

\* C15: GET /online-users answers with the presence summary of the registry
\* at the time of the request: its count and its {id, name, role} entries
C15_OnlineUsersIsThePresenceSummary ==
  resp.op = "onlineUsers" =>
    /\ resp.status = 200
    /\ resp.body = PresenceSnapshot(onlineUsers)

\* C16: a delete succeeds exactly when the message was found and the requester
\* is its author or an admin, whatever the message's age; a success leaves the
\* store without that message and with every other message as it was; a
\* failure (404 not found, 403 not authorized) leaves the store as it was
C16_DeleteByAuthorOrAdminAtAnyAge ==
  [][resp'.op = "delete" =>
       LET r == resp'.req
           found == r.doc # NoMsg
           allowed == found /\ (r.doc.user = r.user \/ Role(r.user) = "admin")
       IN /\ (resp'.status = 200) <=> allowed
          /\ resp'.status = 200 =>
                /\ Ids(store') = Ids(store) \ {r.id}
                /\ \A i \in Ids(store') : findById(store', i) = findById(store, i)
          /\ ~found => resp'.status = 404
          /\ (found /\ ~allowed) => resp'.status = 403
          /\ resp'.status # 200 => store' = store]_vars

\* an author has deleted their own message after the edit window closed, and
\* the other message is still stored
C16_Witness ==
  /\ resp.op = "delete" /\ resp.status = 200
  /\ resp.req.doc.user = resp.req.user
  /\ Role(resp.req.user) = "user"
  /\ now - resp.req.doc.createdAt > 15 * 60 * 1000
  /\ resp.req.id \notin Ids(store)
  /\ Len(store) = 1

\* C17: whatever sends and edits were accepted or rejected, the content of
\* every stored message is trimmed and 1 to 1000 characters long, and a send
\* or edit that is not answered with success leaves the store as it was
C17_StoredContentTrimmedAndInRange ==
  [][/\ \A i \in 1..Len(store') :
          /\ store'[i].content.lead = 0 /\ store'[i].content.trail = 0
          /\ StrLen(store'[i].content) >= 1
          /\ StrLen(store'[i].content) <= 1000
     /\ (resp'.op \in {"send", "edit"} /\ resp'.status \notin {200, 201})
          => store' = store]_vars

\* an edit with padded content of 1000 characters was accepted and the stored
\* content is its 999 inner characters
C17_Witness ==
  /\ resp.op = "edit" /\ resp.status = 200
  /\ resp.req.content = Str(1, MaxContentLen - 1, 0)
  /\ findById(store, resp.req.id).content = Str(0, MaxContentLen - 1, 0)

\* the fields of a message that are fixed when it is created
AuthorFields(m) == <<m.user, m.userName, m.userRole, m.createdAt, m.replyTo>>

\* C18: a message is created with the sender's id, name and role and the time
\* of the send; no later step changes its author id, name, role, createdAt or
\* replyTo, and a reaction toggle changes none of content, isEdited, editedAt
C18_AuthorFieldsAndCreatedAtAreFixed ==
  [][/\ \A id \in Ids(store) \cap Ids(store') :
          AuthorFields(findById(store', id)) = AuthorFields(findById(store, id))
     /\ resp'.op = "react" =>
          \A id \in Ids(store) \cap Ids(store') :
            /\ findById(store', id).content = findById(store, id).content
            /\ findById(store', id).isEdited = findById(store, id).isEdited
            /\ findById(store', id).editedAt = findById(store, id).editedAt
     /\ (resp'.op = "send" /\ resp'.status = 201) =>
          AuthorFields(store'[Len(store')]) =
            <<resp'.req.user, Name(resp'.req.user), Role(resp'.req.user), now,
              resp'.req.replyTo>>]_vars

\* a toggle that read the message before an edit was saved has been saved
\* after it: the message is edited and carries the reaction
C18_Witness ==
  /\ resp.op = "react" /\ resp.status = 200
  /\ ~resp.req.doc.isEdited
  /\ findById(store, resp.req.id).isEdited
  /\ findById(store, resp.req.id).content = Str(0, MaxContentLen, 0)
  /\ findById(store, resp.req.id).reactions # <<>>

\* the reactions of message m other than the pair (u, e), in their order
ReactionsOfOthers(m, u, e) ==
  LET Other(x) == x.user # u \/ x.emoji # e IN SelectSeq(m.reactions, Other)

\* C19: a toggle by user u with emoji e, answered with success or not and
\* overlapping others or not, leaves every reaction of another user or with
\* another emoji in the stored message as it was
C19_ToggleLeavesOtherReactions ==
  [][(resp'.op = "react" /\ resp'.req.id \in Ids(store)) =>
       LET r == resp'.req
       IN /\ r.id \in Ids(store')
          /\ ReactionsOfOthers(findById(store', r.id), r.user, r.emoji)
               = ReactionsOfOthers(findById(store, r.id), r.user, r.emoji)
          /\ resp'.status # 200 => store' = store]_vars

\* two users' toggles overlapped: the second to save had read the message
\* without the first one's reaction, and both reactions are stored
C19_Witness ==
  /\ resp.op = "react" /\ resp.status = 200
  /\ resp.req.doc.reactions = <<>>
  /\ resp.req.id \in Ids(store)
  /\ \E x \in ReactionSet(findById(store, resp.req.id)) : x.user # resp.req.user
  /\ \E x \in ReactionSet(findById(store, resp.req.id)) : x.user = resp.req.user

\* the stored message shows the mutation an event announces, made by someone
\* allowed to make it
Announces(e, u) ==
  LET d == e.payload
      m == findById(store, d.id)
  IN CASE e.event = "messageEdited" ->
            /\ m # NoMsg /\ m.isEdited /\ m.content = d.content
            /\ (m.user = u \/ Role(u) = "admin")
       [] e.event = "messageDeleted" -> m = NoMsg /\ d.id < nextId
       [] e.event = "reactionAdded" -> m # NoMsg
       [] OTHER -> TRUE

\* C20: a messageEdited, messageDeleted or reactionAdded event is delivered to
\* peers only for a message of the store that was edited, deleted or reacted
\* to, by a sender allowed to change it
C20_RelayedEventsFollowStoreMutations ==
  \A i \in 1..Len(emits) :
    emits[i].event \in {"messageEdited", "messageDeleted", "reactionAdded"} =>
      /\ incoming.sid \in LiveSockets
      /\ Announces(emits[i], sockets[incoming.sid])

====
